---- MODULE Spec2Model ----
(***************************************************************************)
(* Model of the Emitter class of src/src/index.ts.                         *)
(*                                                                         *)
(* The emitter owns eventsMap (Map: eventName -> Set of wrapped listeners) *)
(* and listenersMap (WeakMap: listener -> wrapped listener).  Set objects  *)
(* have identity (the token returned by on() captures the Set it added     *)
(* to), so the heap of Set objects is the sequence `sets`; a JS Set        *)
(* iterates in insertion order, so each Set is a duplicate-free sequence.  *)
(* Every call of on() creates a fresh wrapped listener (listenerWithLog),  *)
(* recorded in `wrappers`; the token of the n-th on() call is n.           *)
(*                                                                         *)
(* emit() calls caller-supplied listeners, which may call back into the    *)
(* emitter before they return; `stack` holds the emit() calls in progress. *)
(* Listeners are assumed to return normally.                               *)
(*                                                                         *)
(* `debug` is the flag the constructor stores; the groups a call writes to *)
(* the console through log() are recorded in the step record `last`.       *)
(*                                                                         *)
(* What a call returns or throws is an operator of the state (onResult,    *)
(* offResult, tokenOffResult, emitResult, hasListener).  Spec has the      *)
(* calls that go on to change the state; SpecCalls has, besides, the calls *)
(* that throw, the token off() that returns false and hasListener().       *)
(***************************************************************************)
EXTENDS Integers, Sequences, FiniteSets, TLC

MaxOn == 2
MaxDepth == 1

\* values carry their typeof tag
ValidKeys ==
    {[type |-> "string", id |-> "event1"], [type |-> "string", id |-> "event2"]}
BadKey == [type |-> "object", id |-> "{}"]
EventNames == ValidKeys \cup {BadKey}
NoKey == [type |-> "undefined", id |-> "undefined"]

Functions ==
    {[type |-> "function", id |-> "listener1"],
     [type |-> "function", id |-> "listener2"]}
BadListener == [type |-> "string", id |-> "not a function"]
ListenerArgs == Functions \cup {BadListener}
NoListener == [type |-> "undefined", id |-> "undefined"]

Payloads == {"{}"}
NoPayload == "undefined"

VARIABLES eventsMap, listenersMap, debug, sets, wrappers, stack, last

vars == <<eventsMap, listenersMap, debug, sets, wrappers, stack, last>>

----------------------------------------------------------------------------
\* Helpers of the source

\* the value passes assertEventName
\* (assertEventNameLoose: a check that lets objects through)
assertEventNameLoose(eventName) ==
    eventName.type \in {"string", "symbol", "number", "object"}
assertEventName(eventName) == eventName.type \in {"string", "symbol", "number"}

assertListener(listener) == listener.type = "function"

\* the Set registered for eventName, 0 for undefined
getSubscribers(eventName) ==
    IF eventName \notin DOMAIN eventsMap THEN 0 ELSE eventsMap[eventName]

\* the wrapped listener created by on(eventName, listener) adding to Set s
listenerWithLog(eventName, listener, s) ==
    [eventName |-> eventName, listener |-> listener, subscribers |-> s]

Range(seq) == {seq[i] : i \in 1..Len(seq)}

\* Set.prototype.add: insertion order, no duplicates
\* (SetAddFront: a collection that puts the newest entry first)
SetAddFront(s, w) == IF w \in Range(s) THEN s ELSE <<w>> \o s
SetAdd(s, w) == IF w \in Range(s) THEN s ELSE Append(s, w)

\* Set.prototype.delete
\* (SetClear: set.clear(); SetDeleteListener: every wrapped listener of the
\* same listener is deleted)
SetClear(s, w) == <<>>
SetDeleteListener(s, w) ==
    SelectSeq(s, LAMBDA x : wrappers[x].listener # wrappers[w].listener)
SetDelete(s, w) == SelectSeq(s, LAMBDA x : x # w)

\* Map.prototype.delete / WeakMap.prototype.delete
\* (MapDeleteSkip: the entry is left in the map)
MapDeleteSkip(m, k) == m
MapDelete(m, k) == [x \in DOMAIN m \ {k} |-> m[x]]

\* Map.prototype.set / WeakMap.prototype.set
MapSet(m, k, v) == [x \in DOMAIN m \cup {k} |-> IF x = k THEN v ELSE m[x]]

\* hasListener(eventName, listener): the value returned or the error thrown
hasListener(eventName, listener) ==
    IF ~assertListener(listener) THEN "TypeError:listener"
    ELSE IF ~assertEventName(eventName) THEN "TypeError:eventName"
    ELSE IF listener \in DOMAIN listenersMap THEN "true"
    ELSE "false"

----------------------------------------------------------------------------
\* Observers used by the properties

\* wrapped listeners currently held by some Set
Held == UNION {Range(sets[s]) : s \in 1..Len(sets)}

\* the registrations made under eventName and not removed, in the order
\* the on() calls were made
Registered(eventName) ==
    SelectSeq([i \in 1..Len(wrappers) |-> i],
              LAMBDA w : wrappers[w].eventName = eventName /\ w \in Held)

\* the wrapped listener is in the Set that eventsMap has for its eventName
InKeySet(w) ==
    /\ wrappers[w].eventName \in DOMAIN eventsMap
    /\ w \in Range(sets[eventsMap[wrappers[w].eventName]])

\* every on() call so far was made with a string, symbol or number key
ValidUse == \A w \in 1..Len(wrappers) : assertEventName(wrappers[w].eventName)

\* on() was never called twice with the same key and listener
NoDuplicate ==
    \A v, w \in 1..Len(wrappers) :
        (/\ wrappers[v].eventName = wrappers[w].eventName
         /\ wrappers[v].listener = wrappers[w].listener) => v = w

\* the listeners a direct off(eventName, l) that returned true has just
\* unsubscribed, when keys are valid and no on() call was repeated
JustOff(eventName) ==
    IF /\ ValidUse
       /\ NoDuplicate
       /\ last.op = "off"
       /\ last.result = "true"
       /\ last.eventName = eventName
    THEN {last.listener} ELSE {}

\* the record of the latest step: the call, its arguments (token: the
\* wrapped listener made, called or removed through its token), its result,
\* the wrapped listener it deleted from a Set (0 for none), and the groups
\* it wrote to the console
Step(op, eventName, listener, token, payload, result, removed) ==
    [op |-> op, eventName |-> eventName, listener |-> listener,
     token |-> token, payload |-> payload, result |-> result,
     removed |-> removed, registered |-> <<>>, called |-> <<>>,
     logged |-> <<>>]

\* this.log(eventType, eventName, eventData): one collapsed group on the
\* console, whatever this.debug is
log(eventType, eventName) == <<[eventType |-> eventType, eventName |-> eventName]>>

Logged(step, entries) == [step EXCEPT !.logged = entries]

----------------------------------------------------------------------------
Init ==
    /\ eventsMap = <<>>
    /\ listenersMap = <<>>
    /\ sets = <<>>
    /\ wrappers = <<>>
    /\ debug \in BOOLEAN
    /\ stack = <<>>
    /\ last = [op |-> "new", eventName |-> NoKey, listener |-> NoListener,
               token |-> 0, payload |-> NoPayload, result |-> "undefined",
               removed |-> 0, registered |-> <<>>, called |-> <<>>,
               logged |-> <<>>]

\* a call into the emitter comes from the top level or from the body of
\* the listener that is being invoked
CanCall == IF stack = <<>> THEN TRUE ELSE stack[Len(stack)].running

Top == stack[Len(stack)]

Pop == SubSeq(stack, 1, Len(stack) - 1)

----------------------------------------------------------------------------
\* on(eventName, listener)

\* this.listenersMap.set(listener, newListener)
\* (onListenersMapSkip: on() without that statement)
onListenersMapSkip(listener, newListener) == listenersMap
onListenersMap(listener, newListener) == MapSet(listenersMap, listener, newListener)

\* what on() returns or throws; eventName is not validated
onResult(eventName, listener) ==
    IF ~assertListener(listener) THEN "TypeError:listener" ELSE "token"

\* on() reaches its statements that register the listener: assertListener
\* comes first
\* (onReachesAlways: assertListener called after them)
onReachesAlways(eventName, listener) == TRUE
onReaches(eventName, listener) == assertListener(listener)

on(eventName, listener) ==
    /\ CanCall
    /\ onReaches(eventName, listener)
    /\ Len(wrappers) < MaxOn
    /\ LET found == getSubscribers(eventName)
           subscribers == IF found = 0 THEN Len(sets) + 1 ELSE found
           sets1 == IF found = 0 THEN Append(sets, <<>>) ELSE sets
           newListener == Len(wrappers) + 1
       IN  /\ eventsMap' = IF found = 0 THEN MapSet(eventsMap, eventName, subscribers)
                                        ELSE eventsMap
           /\ wrappers' = Append(wrappers, listenerWithLog(eventName, listener, subscribers))
           /\ listenersMap' = onListenersMap(listener, newListener)
           /\ sets' = [sets1 EXCEPT ![subscribers] = SetAdd(@, newListener)]
           /\ UNCHANGED <<debug, stack>>
           /\ last' = Logged(Step("on", eventName, listener, newListener, NoPayload,
                                  onResult(eventName, listener), 0),
                             log("subscribe", eventName))

----------------------------------------------------------------------------
\* the off() of the object returned by on(); token is the on() call's number

\* what the token's off() returns or throws: its hasListener guard
\* (tokenOffResultAlways: off() without the guard)
tokenOffResultAlways(token) == "true"
tokenOffResult(token) == hasListener(wrappers[token].eventName, wrappers[token].listener)

tokenOff(token) ==
    /\ CanCall
    /\ tokenOffResult(token) = "true"
    /\ LET eventName == wrappers[token].eventName
           listener == wrappers[token].listener
           subscribers == wrappers[token].subscribers
       IN  /\ sets' = [sets EXCEPT ![subscribers] = SetDelete(@, token)]
           /\ listenersMap' = MapDelete(listenersMap, listener)
           /\ UNCHANGED <<eventsMap, debug, wrappers, stack>>
           /\ last' = Logged(Step("token.off", eventName, listener, token, NoPayload,
                                  tokenOffResult(token),
                                  IF token \in Range(sets[subscribers]) THEN token
                                                                        ELSE 0),
                             log("unsubscribe", eventName))

----------------------------------------------------------------------------
\* off(eventName, listener)

\* what off() returns or throws
\* (offResultListenerFirst: the two lookups in the other order)
offResultListenerFirst(eventName, listener) ==
    IF ~assertListener(listener) THEN "TypeError:listener"
    ELSE IF ~assertEventName(eventName) THEN "TypeError:eventName"
    ELSE IF listener \notin DOMAIN listenersMap THEN "Error:listener"
    ELSE IF eventName \notin DOMAIN eventsMap THEN "Error:event"
    ELSE "true"
offResult(eventName, listener) ==
    IF ~assertListener(listener) THEN "TypeError:listener"
    ELSE IF ~assertEventName(eventName) THEN "TypeError:eventName"
    ELSE IF eventName \notin DOMAIN eventsMap THEN "Error:event"
    ELSE IF listener \notin DOMAIN listenersMap THEN "Error:listener"
    ELSE "true"

\* const wrappedListener = this.listenersMap.get(listener)
\* (getWrappedListenerOfKey: an association kept for each eventName, which
\* gives the listener's latest wrapped listener in the Set of eventName)
getWrappedListenerOfKey(eventName, listener) ==
    LET own == {w \in Range(sets[eventsMap[eventName]]) :
                   wrappers[w].listener = listener}
    IN  IF own = {} THEN listenersMap[listener]
        ELSE CHOOSE w \in own : \A x \in own : x <= w
getWrappedListener(eventName, listener) == listenersMap[listener]

off(eventName, listener) ==
    /\ CanCall
    /\ offResult(eventName, listener) = "true"
    /\ LET listeners == getSubscribers(eventName)
           wrappedListener == getWrappedListener(eventName, listener)
           after == SetDelete(sets[listeners], wrappedListener)
       IN  /\ listenersMap' = MapDelete(listenersMap, listener)
           /\ sets' = [sets EXCEPT ![listeners] = after]
           /\ eventsMap' = IF Len(after) = 0 THEN MapDelete(eventsMap, eventName)
                                             ELSE eventsMap
           /\ UNCHANGED <<debug, wrappers, stack>>
           /\ last' = Logged(Step("off", eventName, listener, 0, NoPayload,
                                  offResult(eventName, listener),
                                  IF wrappedListener \in Range(sets[listeners])
                                  THEN wrappedListener ELSE 0),
                             log("unsubscribe", eventName))

----------------------------------------------------------------------------
\* emit(eventName, payload)

\* the wrapped listeners an emit() in progress has called so far
CalledWrappers(fr) == {fr.called[i].wrapper : i \in 1..Len(fr.called)}

\* the wrapped listeners the forEach of an emit() in progress has yet to
\* call: the rest of the array copied from the Set when emit() was called
\* (RemainingLive: a forEach over the Set itself)
RemainingLive(fr) ==
    IF fr.listeners = 0 THEN <<>>
    ELSE SelectSeq(sets[fr.listeners], LAMBDA w : w \notin CalledWrappers(fr))
Remaining(fr) ==
    SubSeq(fr.staticListeners, Len(fr.called) + 1, Len(fr.staticListeners))

\* what emit() returns or throws
emitResult(eventName) ==
    IF ~assertEventName(eventName) THEN "TypeError:eventName" ELSE "undefined"

emit(eventName, payload) ==
    /\ CanCall
    /\ emitResult(eventName) = "undefined"
    /\ Len(stack) < MaxDepth
    /\ LET listeners == getSubscribers(eventName)
           staticListeners == IF listeners = 0 THEN <<>> ELSE sets[listeners]
       IN  stack' = Append(stack,
                [eventName |-> eventName, payload |-> payload,
                 listeners |-> listeners, staticListeners |-> staticListeners,
                 called |-> <<>>, running |-> FALSE,
                 registered |-> Registered(eventName),
                 afterOff |-> JustOff(eventName)])
    /\ UNCHANGED <<eventsMap, listenersMap, debug, sets, wrappers>>
    /\ last' = Logged(Step("emit", eventName, NoListener, 0, payload, "pending", 0),
                      log("emit", eventName))

\* staticListeners.forEach: the next wrapped listener calls its listener
callListener ==
    /\ stack # <<>>
    /\ ~Top.running
    /\ Remaining(Top) # <<>>
    /\ UNCHANGED <<eventsMap, listenersMap, debug, sets, wrappers>>
    /\ LET w == Head(Remaining(Top))
           call == [wrapper |-> w, listener |-> wrappers[w].listener,
                    payload |-> Top.payload]
       IN  /\ stack' = [stack EXCEPT ![Len(stack)] =
                           [@ EXCEPT !.called = Append(@, call), !.running = TRUE]]
           /\ last' = Step("call-listener", wrappers[w].eventName, wrappers[w].listener,
                           w, Top.payload, "pending", 0)

\* the listener returns to the wrapped listener, which returns to forEach
listenerReturn ==
    /\ stack # <<>>
    /\ Top.running
    /\ stack' = [stack EXCEPT ![Len(stack)] = [@ EXCEPT !.running = FALSE]]
    /\ UNCHANGED <<eventsMap, listenersMap, debug, sets, wrappers>>
    /\ last' = Logged(Step("listener-return", Top.eventName, NoListener, 0,
                           Top.payload, "undefined", 0),
                      log("call-listener", Top.eventName))

emitReturn ==
    /\ stack # <<>>
    /\ ~Top.running
    /\ Remaining(Top) = <<>>
    /\ stack' = Pop
    /\ UNCHANGED <<eventsMap, listenersMap, debug, sets, wrappers>>
    /\ last' = [Step("emit-return", Top.eventName, NoListener, 0, Top.payload,
                     emitResult(Top.eventName), 0)
                  EXCEPT !.registered = Top.registered, !.called = Top.called]

----------------------------------------------------------------------------
Next ==
    \/ \E eventName \in EventNames, listener \in ListenerArgs : on(eventName, listener)
    \/ \E token \in 1..Len(wrappers) : tokenOff(token)
    \/ \E eventName \in EventNames, listener \in ListenerArgs : off(eventName, listener)
    \/ \E eventName \in EventNames, payload \in Payloads : emit(eventName, payload)
    \/ callListener
    \/ listenerReturn
    \/ emitReturn

Spec == Init /\ [][Next]_vars

----------------------------------------------------------------------------
\* The calls that throw or return without reaching a mutating statement.
\* What they return or throw depends on the two maps and the Sets only, and
\* a call that throws inside a listener would end that listener, so they
\* are made between the top-level calls.

AtTopLevel == stack = <<>>

\* on() thrown out of by assertListener
onThrows(eventName, listener) ==
    /\ AtTopLevel
    /\ ~onReaches(eventName, listener)
    /\ UNCHANGED <<eventsMap, listenersMap, debug, sets, wrappers, stack>>
    /\ last' = Step("on", eventName, listener, 0, NoPayload,
                    onResult(eventName, listener), 0)

\* emit() thrown out of by assertEventName
emitThrows(eventName, payload) ==
    /\ AtTopLevel
    /\ emitResult(eventName) # "undefined"
    /\ UNCHANGED <<eventsMap, listenersMap, debug, sets, wrappers, stack>>
    /\ last' = Step("emit", eventName, NoListener, 0, payload,
                    emitResult(eventName), 0)

\* off() thrown out of by an assertion or by one of its two lookups
offThrows(eventName, listener) ==
    /\ AtTopLevel
    /\ offResult(eventName, listener) # "true"
    /\ UNCHANGED <<eventsMap, listenersMap, debug, sets, wrappers, stack>>
    /\ last' = Step("off", eventName, listener, 0, NoPayload,
                    offResult(eventName, listener), 0)

\* the token's off() whose hasListener guard is false or throws
tokenOffFalse(token) ==
    /\ AtTopLevel
    /\ tokenOffResult(token) # "true"
    /\ UNCHANGED <<eventsMap, listenersMap, debug, sets, wrappers, stack>>
    /\ last' = Step("token.off", wrappers[token].eventName, wrappers[token].listener,
                    token, NoPayload, tokenOffResult(token), 0)

hasListenerCall(eventName, listener) ==
    /\ AtTopLevel
    /\ UNCHANGED <<eventsMap, listenersMap, debug, sets, wrappers, stack>>
    /\ last' = Step("hasListener", eventName, listener, 0, NoPayload,
                    hasListener(eventName, listener), 0)

NextCalls ==
    \/ Next
    \/ \E eventName \in EventNames, listener \in ListenerArgs :
          onThrows(eventName, listener)
    \/ \E eventName \in EventNames, payload \in Payloads :
          emitThrows(eventName, payload)
    \/ \E eventName \in EventNames, listener \in ListenerArgs :
          offThrows(eventName, listener)
    \/ \E token \in 1..Len(wrappers) : tokenOffFalse(token)
    \/ \E eventName \in EventNames, listener \in ListenerArgs :
          hasListenerCall(eventName, listener)

SpecCalls == Init /\ [][NextCalls]_vars

TypeOK ==
    /\ debug \in BOOLEAN
    /\ DOMAIN eventsMap \subseteq EventNames
    /\ DOMAIN listenersMap \subseteq Functions
    /\ Len(wrappers) <= MaxOn
    /\ Len(stack) <= MaxDepth

----------------------------------------------------------------------------
\* Properties

WrappersOf(called) == [i \in 1..Len(called) |-> called[i].wrapper]

Delivered(called) ==
    [i \in 1..Len(called) |-> <<called[i].listener, called[i].payload>>]

Expected(registered, payload) ==
    [i \in 1..Len(registered) |-> <<wrappers[registered[i]].listener, payload>>]

IsPrefix(s, t) == Len(s) <= Len(t) /\ s = SubSeq(t, 1, Len(s))

\* C1: the listeners an emit() pass invokes are fixed when emit() is called:
\* at every moment of a pass, the wrapped listeners already invoked followed
\* by those still to be invoked are the registrations the key had when
\* emit() was called, whatever the listeners have subscribed or unsubscribed
\* meanwhile, and a finished pass has invoked exactly those registrations.
C1_SnapshotFixed ==
    /\ \A i \in 1..Len(stack) :
          WrappersOf(stack[i].called) \o Remaining(stack[i]) = stack[i].registered
    /\ last.op = "emit-return" => WrappersOf(last.called) = last.registered

\* a wrapped listener is invoked although it was removed from its Set
\* earlier in the same pass
C1_Witness == last.op = "call-listener" /\ last.token \notin Held

\* C2: emit(k, p) on a valid key invokes the listeners registered under k
\* when it is called, one call per registration, in the order of the on()
\* calls, each with payload p, invokes no other listener, and returns
\* without an error (also when k has no registration).
C2_EmitInvokesRegistered ==
    /\ \A i \in 1..Len(stack) :
          IsPrefix(Delivered(stack[i].called),
                   Expected(stack[i].registered, stack[i].payload))
    /\ last.op = "emit-return" =>
          /\ Delivered(last.called) = Expected(last.registered, last.payload)
          /\ \A i \in 1..Len(last.registered) :
                wrappers[last.registered[i]].eventName = last.eventName
          /\ \A i, j \in 1..Len(last.registered) :
                i < j => last.registered[i] < last.registered[j]
          /\ last.result = "undefined"

C2_Witness == last.op = "emit-return" /\ Len(last.called) >= 2

\* C3: when every key used so far is valid and no on() call was repeated
\* with the same key and listener, an emit(k, p) that follows a direct
\* off(k, l) that returned true, with no on(k, l) in between, does not
\* invoke l.
C3_OffThenEmitSkips ==
    \A i \in 1..Len(stack) : \A j \in 1..Len(stack[i].called) :
        stack[i].called[j].listener \notin stack[i].afterOff

\* C4: when every key used so far is valid, the off() of a token returns
\* true only when this call removed the registration the token was created
\* with, and returns false only when that registration is already gone.
C4_TokenOffExact ==
    ValidUse =>
        /\ last.op = "token.off" => last.removed = last.token
        /\ \A token \in 1..Len(wrappers) :
              /\ tokenOffResult(token) \in {"true", "false"}
              /\ tokenOffResult(token) = "false" => token \notin Held

\* C5: when every key used so far is valid, a direct off(k, l) returns true
\* only if the wrapped listener associated with l was a member of k's Set,
\* which the call removed, and after it l has no association.
C5_OffRemovesMember ==
    (ValidUse /\ last.op = "off" /\ last.result = "true") =>
        /\ last.removed # 0
        /\ last.listener \notin DOMAIN listenersMap

\* C6: right after on(k, l) has returned for a valid key k,
\* hasListener(k, l) returns true.
C6_HasListenerAfterOn ==
    (last.op = "on" /\ last.result = "token" /\ assertEventName(last.eventName)) =>
        hasListener(last.eventName, last.listener) = "true"

C6_Witness ==
    /\ last.op = "on"
    /\ last.result = "token"
    /\ assertEventName(last.eventName)
    /\ last.token = 2

\* C7: when every key used so far is valid, hasListener(k, l) returns true
\* only if l is registered under k.
C7_HasListenerChecksKey ==
    ValidUse => \A eventName \in ValidKeys, listener \in Functions :
        hasListener(eventName, listener) = "true" =>
            \E w \in Range(Registered(eventName)) : wrappers[w].listener = listener

\* C8: when every key used so far is valid, a direct off(k, l) with a valid
\* key and listener, called when k has no registration, throws 'this event
\* has not been subscribed'.
C8_OffUnknownKey ==
    ValidUse => \A eventName \in ValidKeys, listener \in Functions :
        Registered(eventName) = <<>> =>
            offResult(eventName, listener) = "Error:event"

\* C9 as stated: a direct off(k, l) called right after a direct off(k, l)
\* that returned true and removed l's registration under k throws 'this
\* listener has not been listened'.
C9_SecondOffUnknownListener ==
    (last.op = "off" /\ last.removed # 0) =>
        offResult(last.eventName, last.listener) = "Error:listener"

\* C9 amended: such a second off(k, l) throws 'this listener has not been
\* listened' if k still has a Set in eventsMap, and 'this event has not been
\* subscribed' if the first call deleted k's entry (as it does when l was
\* the only listener registered under k).
C9_SecondOffThrows ==
    (last.op = "off" /\ last.removed # 0) =>
        offResult(last.eventName, last.listener) =
            IF Registered(last.eventName) # <<>> THEN "Error:listener"
                                                 ELSE "Error:event"

\* l was the only listener registered under k
C9_Witness ==
    /\ last.op = "off"
    /\ last.removed # 0
    /\ Registered(last.eventName) = <<>>

\* C10: the off() of a token of a valid key, called again right after a call
\* of the same off() that returned true, returns false, which leaves every
\* Set, eventsMap and listenersMap as they are.
C10_TokenOffIdempotent ==
    (last.op = "token.off" /\ assertEventName(last.eventName)) =>
        tokenOffResult(last.token) = "false"

C10_Witness ==
    /\ last.op = "token.off"
    /\ assertEventName(last.eventName)
    /\ last.removed = last.token

\* C11: on() called with an eventName that is not a string, symbol or number
\* throws the TypeError of assertEventName and registers nothing.
C11_OnRejectsInvalidKey ==
    /\ \A w \in 1..Len(wrappers) : assertEventName(wrappers[w].eventName)
    /\ (last.op = "on" /\ ~assertEventName(last.eventName)) =>
           /\ last.result = "TypeError:eventName"
           /\ last.token = 0

\* C12: on() with a listener that is not a function throws the TypeError of
\* assertListener, and so do off() and hasListener(); emit() with an
\* eventName that is not a string, symbol or number throws the TypeError of
\* assertEventName, and so do off() and hasListener() when their listener
\* is a function (they check the listener first).
C12_ArgumentTypeErrors ==
    /\ (last.op \in {"on", "off", "hasListener"} /\ ~assertListener(last.listener)) =>
           last.result = "TypeError:listener"
    /\ (/\ last.op \in {"off", "hasListener"}
        /\ assertListener(last.listener)
        /\ last.eventName.type \notin {"string", "symbol", "number"}) =>
           last.result = "TypeError:eventName"
    /\ (/\ last.op = "emit"
        /\ last.eventName.type \notin {"string", "symbol", "number"}) =>
           last.result = "TypeError:eventName"

\* off() was called with an object as eventName and a function as listener
C12_Witness ==
    /\ last.op = "off"
    /\ last.eventName = BadKey
    /\ last.listener \in Functions
    /\ last.result = "TypeError:eventName"

\* C13: an emitter constructed with debug = false writes nothing to the
\* console, whatever is called (keys being valid).
C13_SilentWhenDebugOff ==
    (ValidUse /\ ~debug) => last.logged = <<>>

\* C14: eventsMap never holds a key whose Set is empty (keys being valid).
C14_NoEmptySet ==
    ValidUse =>
        \A eventName \in DOMAIN eventsMap : sets[eventsMap[eventName]] # <<>>

\* C15: a wrapped listener leaves the Set of its eventName only in a step
\* that is an off() call, direct or of a token, for its own listener; no
\* on(), emit(), listener call, hasListener(), throwing call, or off() for
\* another listener takes it out.
C15_RemovedOnlyByOwnOff ==
    [][\A w \in 1..Len(wrappers) :
          (InKeySet(w) /\ ~InKeySet(w)') =>
              /\ last'.op \in {"off", "token.off"}
              /\ last'.result = "true"
              /\ last'.listener = wrappers[w].listener]_vars

\* an off() for another listener of the same eventName has removed that
\* listener's registration and left this one
C15_Witness ==
    /\ last.op = "off"
    /\ last.removed # 0
    /\ \E w \in 1..Len(wrappers) :
          /\ InKeySet(w)
          /\ wrappers[w].eventName = last.eventName
          /\ wrappers[w].listener # last.listener

\* a later on() registered the same listener under another eventName
Superseded(w) ==
    \E v \in (w + 1)..Len(wrappers) :
        /\ wrappers[v].listener = wrappers[w].listener
        /\ wrappers[v].eventName # wrappers[w].eventName

\* C16: once on(k2, l) has followed on(k1, l) with k1 # k2 (both valid),
\* the wrapped listener of the first call is still in the Set of k1, where
\* emit(k1) finds it; off(k1, l) returns true while listenersMap has l, and
\* no direct off() call ever takes that wrapped listener out of the Set.
C16_SupersededStays ==
    /\ [](\A v, w \in 1..Len(wrappers) :
            (/\ v < w
             /\ wrappers[v].listener = wrappers[w].listener
             /\ wrappers[v].eventName # wrappers[w].eventName
             /\ wrappers[v].eventName \in ValidKeys
             /\ InKeySet(v)
             /\ wrappers[v].listener \in DOMAIN listenersMap) =>
                offResult(wrappers[v].eventName, wrappers[v].listener) = "true")
    /\ [][\A w \in 1..Len(wrappers) :
            (Superseded(w) /\ InKeySet(w)) =>
                /\ last'.op \in {"on", "off"} => InKeySet(w)'
                /\ (last'.op = "emit" /\ last'.eventName = wrappers[w].eventName) =>
                       w \in Range(stack'[Len(stack')].staticListeners)]_vars

\* off(k1, l) has returned true and removed nothing: the wrapped listener
\* that on(k1, l) made is still in the Set of k1
C16_Witness ==
    /\ ValidUse
    /\ last.op = "off"
    /\ last.result = "true"
    /\ last.removed = 0
    /\ \E w \in 1..Len(wrappers) :
          /\ Superseded(w)
          /\ InKeySet(w)
          /\ wrappers[w].eventName = last.eventName
          /\ wrappers[w].listener = last.listener

\* C17: the wrapped listener that listenersMap has for a listener is a
\* wrapped listener of that listener and is in the Set that eventsMap has
\* for its eventName, so that an emit() that passes assertEventName on that
\* eventName copies it into the array of wrapped listeners it calls.
C17_AssociationRegistered ==
    /\ \A listener \in DOMAIN listenersMap :
          /\ listenersMap[listener] \in 1..Len(wrappers)
          /\ wrappers[listenersMap[listener]].listener = listener
          /\ InKeySet(listenersMap[listener])
    /\ (last.op = "emit" /\ last.result = "pending") =>
           \A listener \in DOMAIN listenersMap :
               wrappers[listenersMap[listener]].eventName = last.eventName =>
                   listenersMap[listener] \in Range(Top.staticListeners)

\* an off() call has removed a registration and another listener keeps its
\* association
C17_Witness ==
    /\ last.op \in {"off", "token.off"}
    /\ last.removed # 0
    /\ listenersMap # <<>>

\* C18: a listener for which hasListener() returns false is called by no
\* emit(): every wrapped listener in the Set of its eventName belongs to a
\* listener that listenersMap has (keys being valid).
C18_RegisteredHasAssociation ==
    ValidUse =>
        \A w \in 1..Len(wrappers) :
            InKeySet(w) =>
                hasListener(wrappers[w].eventName, wrappers[w].listener) = "true"

\* C19: every on(k, l) call appends one new wrapped listener to the
\* registrations of k and changes no other, also when l is registered under
\* k already; emit(k) copies all of them, one call of l for each; a direct
\* off(k, l) that removes a registration removes the latest one made for l
\* under k and no other.
C19_OneRegistrationPerOn ==
    [][/\ wrappers' # wrappers =>
             \A eventName \in EventNames :
                 Registered(eventName)' =
                     IF eventName = last'.eventName
                     THEN Append(Registered(eventName), Len(wrappers'))
                     ELSE Registered(eventName)
       /\ last'.op = "emit" =>
             stack'[Len(stack')].staticListeners = Registered(last'.eventName)
       /\ (last'.op = "off" /\ last'.removed # 0) =>
             /\ \A w \in Range(Registered(last'.eventName)) :
                   wrappers[w].listener = last'.listener => w <= last'.removed
             /\ \A eventName \in EventNames :
                   Registered(eventName)' =
                       SelectSeq(Registered(eventName),
                                 LAMBDA w : w # last'.removed)]_vars

\* l was registered twice under k and off(k, l) has removed the second
\* registration only
C19_Witness ==
    /\ last.op = "off"
    /\ last.removed # 0
    /\ \E w \in Range(Registered(last.eventName)) :
          /\ wrappers[w].listener = last.listener
          /\ w < last.removed

\* the results that are a throw
Thrown == {"TypeError:listener", "TypeError:eventName", "Error:event", "Error:listener"}

\* C20: a call that throws (the TypeError of assertListener or of
\* assertEventName, or the Error of one of the lookups of off()) leaves
\* eventsMap, every Set and listenersMap as they were and calls no listener.
C20_ThrowChangesNothing ==
    [][last'.result \in Thrown =>
          UNCHANGED <<eventsMap, listenersMap, sets, wrappers, stack>>]_vars

\* off() has thrown "this listener has not been listened" while other
\* listeners are registered
C20_Witness ==
    /\ last.op = "off"
    /\ last.result = "Error:listener"
    /\ Held # {}

====
